---- MODULE Spec2Model ----
(***************************************************************************)
(* A model of insta-assist's interaction state machine (src/ui.go), of its *)
(* response parser (src/prompt.go) and of the history-keeping variant of   *)
(* the program (src/main.go).                                              *)
(*                                                                         *)
(* Strings are sequences of tokens.  A token is a one-character string     *)
(* (" ", "\n", "q", ...) or the name of a whole piece of text that starts  *)
(* with the marker {"options" ("{A}", "{M}", ...); what encoding/json      *)
(* decodes from the text a marker token stands for is given by Decode.     *)
(*                                                                         *)
(* The bubbletea runtime is modelled as the program sees it: Update is     *)
(* applied to one message at a time, and every tea.Cmd an Update returns   *)
(* runs asynchronously and delivers its message later, in any order with   *)
(* respect to key presses and to the other commands.                       *)
(***************************************************************************)
EXTENDS Integers, Sequences, FiniteSets, Bags, TLC

VARIABLES
  m,          \* the model value threaded through Update
  calls,      \* backend calls dispatched by submitPrompt, not yet completed
  execs,      \* shell commands handed to tea.ExecProcess, result not yet delivered
  ticks,      \* number of tickCmd sleeping, tickMsg not yet delivered
  clipboard,  \* the string last written to the system clipboard
  quit,       \* tea.Quit was returned: the session has ended
  fn,         \* a function of prompt.go applied on its own: name, argument, results
  completed   \* main.go: the responseMsg delivered so far, oldest first

vars == <<m, calls, execs, ticks, clipboard, quit, fn, completed>>

----------------------------------------------------------------------------
(* Bounds of the model                                                     *)

MaxInput == 1      \* longest text typed into the textarea
MaxInFlight == 1   \* most backend calls the model lets be in flight
MaxExecs == 1      \* most shell commands pending a result
MaxTicks == 1      \* most tick commands sleeping
MaxText == 3       \* longest text handed to parseOptions on its own
MaxOpts == 3       \* longest option list handed to the ranking on its own
MaxClean == 5      \* longest string handed to cleanText on its own
MaxHistory == 2    \* most exchanges the history of main.go is let grow to

----------------------------------------------------------------------------
(* Strings                                                                 *)

IsSpace(c) == c \in {" ", "\n", "\t"}

RECURSIVE TrimLeftSpace(_)
TrimLeftSpace(s) ==
  IF s = <<>> THEN <<>>
  ELSE IF IsSpace(Head(s)) THEN TrimLeftSpace(Tail(s)) ELSE s

RECURSIVE TrimRightSet(_, _)
TrimRightSet(s, cutset) ==
  IF s = <<>> THEN <<>>
  ELSE IF s[Len(s)] \in cutset THEN TrimRightSet(SubSeq(s, 1, Len(s) - 1), cutset)
       ELSE s

\* strings.TrimSpace
TrimSpace(s) == TrimRightSet(TrimLeftSpace(s), {" ", "\n", "\t"})

\* strings.TrimRight(s, "\n")
TrimRightNewlines(s) == TrimRightSet(s, {"\n"})

\* strings.ReplaceAll(s, "\n", " ")
ReplaceNewlines(s) == [i \in 1..Len(s) |-> IF s[i] = "\n" THEN " " ELSE s[i]]

\* strings.Fields: the maximal runs of non-space characters
RECURSIVE FieldsAcc(_, _, _)
FieldsAcc(s, cur, acc) ==
  IF s = <<>> THEN (IF cur = <<>> THEN acc ELSE Append(acc, cur))
  ELSE IF IsSpace(Head(s))
       THEN FieldsAcc(Tail(s), <<>>, IF cur = <<>> THEN acc ELSE Append(acc, cur))
       ELSE FieldsAcc(Tail(s), Append(cur, Head(s)), acc)

Fields(s) == FieldsAcc(s, <<>>, <<>>)

\* strings.Join(parts, " ")
RECURSIVE JoinSpace(_)
JoinSpace(parts) ==
  IF parts = <<>> THEN <<>>
  ELSE IF Len(parts) = 1 THEN parts[1]
       ELSE parts[1] \o <<" ">> \o JoinSpace(Tail(parts))

\* strings.ReplaceAll(s, "  ", " "): one pass over non-overlapping pairs
RECURSIVE CollapsePairs(_)
CollapsePairs(s) ==
  IF Len(s) < 2 THEN s
  ELSE IF s[1] = " " /\ s[2] = " "
       THEN <<" ">> \o CollapsePairs(SubSeq(s, 3, Len(s)))
       ELSE <<s[1]>> \o CollapsePairs(Tail(s))

\* cleanText collapsing pairs of spaces instead of splitting into fields
cleanText_CollapsePairs(s) == CollapsePairs(ReplaceNewlines(TrimSpace(s)))

cleanText(s) == JoinSpace(Fields(ReplaceNewlines(TrimSpace(s))))

----------------------------------------------------------------------------
(* The response parser                                                     *)

\* error values: nil, and the one error parseOptions returns
NoError == ""
ParseFailed == "failed to parse options JSON"

optionEntry(v, d, r) == [Value |-> v, Description |-> d, RecommendationOrder |-> r]

\* The texts that start with the marker, and what json.Decoder.Decode makes
\* of each into an optionResponse: ok is err == nil.
\*   {A} {"options":[{"value":"ls -la",..,"recommendation_order":1},
\*                   {"value":"ls",..,"recommendation_order":2}]}
\*   {B} three options ranked 3, 1, 2
\*   {C} one unranked option whose value is "a  b" (two spaces)
\*   {D} two options: "a  b" (two spaces) ranked 2, then "ls" ranked 1
\*   {V} one option with no "value" key (Value is "")
\*   {E} {"options":[]}     {N} {"options":"none"}     {M} {"options":[{"val
Decode(tok) ==
  CASE tok = "{A}" -> [ok |-> TRUE, Options |->
           << optionEntry(<<"l","s"," ","-","l","a">>, <<"a","l","l">>, 1),
              optionEntry(<<"l","s">>, <<>>, 2) >>]
    [] tok = "{B}" -> [ok |-> TRUE, Options |->
           << optionEntry(<<"x">>, <<>>, 3),
              optionEntry(<<"y">>, <<>>, 1),
              optionEntry(<<"z">>, <<>>, 2) >>]
    [] tok = "{C}" -> [ok |-> TRUE, Options |->
           << optionEntry(<<"a"," "," ","b">>, <<>>, 0) >>]
    [] tok = "{D}" -> [ok |-> TRUE, Options |->
           << optionEntry(<<"a"," "," ","b">>, <<"d">>, 2),
              optionEntry(<<"l","s">>, <<>>, 1) >>]
    [] tok = "{V}" -> [ok |-> TRUE, Options |->
           << optionEntry(<<>>, <<"d">>, 1) >>]
    [] tok = "{E}" -> [ok |-> TRUE, Options |-> <<>>]
    [] tok = "{N}" -> [ok |-> FALSE, Options |-> <<>>]
    [] OTHER -> [ok |-> FALSE, Options |-> <<>>]

IsMarker(tok) == tok \in {"{A}", "{B}", "{C}", "{D}", "{V}", "{E}", "{N}", "{M}"}

\* strings.Index(search, `{"options"`): 0 when absent, else the 1-based position
RECURSIVE IndexFrom(_, _)
IndexFrom(s, i) ==
  IF i > Len(s) THEN 0
  ELSE IF IsMarker(s[i]) THEN i ELSE IndexFrom(s, i + 1)

IndexMarker(s) == IndexFrom(s, 1)

\* a less function comparing the ranks as plain numbers
less_ByRankOnly(opts, i, j) ==
  opts[i].RecommendationOrder < opts[j].RecommendationOrder

\* the less function handed to sort.SliceStable (i, j are 1-based here)
less(opts, i, j) ==
  LET oi == opts[i].RecommendationOrder
      oj == opts[j].RecommendationOrder
  IN  IF oi > 0 /\ oj > 0 /\ oi # oj THEN oi < oj
      ELSE IF oi > 0 /\ oj <= 0 THEN TRUE
      ELSE IF oi <= 0 /\ oj > 0 THEN FALSE
      ELSE i < j

Swap(s, i, j) == [s EXCEPT ![i] = s[j], ![j] = s[i]]

\* sort.SliceStable on fewer than 20 elements is one insertion sort:
\*   for i := a+1; i < b; i++ { for j := i; j > a && less(j, j-1); j-- { swap } }
RECURSIVE SinkDown(_, _)
SinkDown(s, j) ==
  IF j > 1 /\ less(s, j, j - 1) THEN SinkDown(Swap(s, j, j - 1), j - 1) ELSE s

RECURSIVE InsertionSort(_, _)
InsertionSort(s, i) ==
  IF i > Len(s) THEN s ELSE InsertionSort(SinkDown(s, i), i + 1)

\* no sorting at all
SliceStable_Unsorted(opts) == opts

SliceStable(opts) == InsertionSort(opts, 2)

\* the loop with a failed candidate erasing what an earlier one gave
RECURSIVE ParseLoop_FailureErases(_, _)
ParseLoop_FailureErases(search, lastOpts) ==
  LET idx == IndexMarker(search)
  IN  IF idx = 0 THEN lastOpts
      ELSE LET resp == Decode(search[idx])
               next == IF resp.ok /\ Len(resp.Options) > 0
                       THEN SliceStable(resp.Options)
                       ELSE <<>>
           IN  ParseLoop_FailureErases(SubSeq(search, idx + 1, Len(search)), next)

RECURSIVE ParseLoop(_, _)
ParseLoop(search, lastOpts) ==
  LET idx == IndexMarker(search)
  IN  IF idx = 0 THEN lastOpts
      ELSE LET resp == Decode(search[idx])
               next == IF resp.ok /\ Len(resp.Options) > 0
                       THEN SliceStable(resp.Options)
                       ELSE lastOpts
           IN  ParseLoop(SubSeq(search, idx + 1, Len(search)), next)

\* parseOptions reporting no error when nothing was found
parseOptions_NoError(raw) == [opts |-> ParseLoop(raw, <<>>), err |-> NoError]

parseOptions(raw) ==
  LET lastOpts == ParseLoop(raw, <<>>)
  IN  IF Len(lastOpts) > 0 THEN [opts |-> lastOpts, err |-> NoError]
      ELSE [opts |-> <<>>, err |-> ParseFailed]

----------------------------------------------------------------------------
(* The model value and the commands an Update returns                      *)

modeInput == "modeInput"
modeRunning == "modeRunning"
modeViewing == "modeViewing"

\* the err of a responseMsg or execResultMsg: nil is NoErr, otherwise err.Error()
NoErr == <<>>

\* status lines: the format string used, and what is formatted into it
Status(kind, cli, text) == [kind |-> kind, cli |-> cli, text |-> text]
helpInput == Status("helpInput", "", <<>>)
helpViewing == Status("helpViewing", "", <<>>)

\* a tea.Cmd; each kind delivers one message when it completes
Cmd(type, cli, value, exit) == [type |-> type, cli |-> cli, value |-> value, exit |-> exit]
tickCmd == Cmd("tick", "", <<>>, FALSE)
teaQuit == Cmd("quit", "", <<>>, FALSE)
execWithFeedback(value, exitOnSuccess) == Cmd("exec", "", value, exitOnSuccess)
runPromptCmd(cliName) == Cmd("call", cliName, <<>>, FALSE)

\* what a handler returns: the new model, the commands, and the clipboard write
\* it made on the way (clipboard.WriteAll is called inside the handler)
NoClip == [written |-> FALSE, value |-> <<>>]
Ret(mm, cmds) == [m |-> mm, cmds |-> cmds, clip |-> NoClip]
RetClip(mm, cmds, value) == [m |-> mm, cmds |-> cmds, clip |-> [written |-> TRUE, value |-> value]]

allCLIOptions == <<"codex", "claude", "gemini", "opencode">>

\* strings.EqualFold on the names that occur
Fold(s) ==
  CASE s = "Claude" -> "claude"
    [] s = "CODEX" -> "codex"
    [] OTHER -> s
EqualFold(a, b) == Fold(a) = Fold(b)

\* the search for the default backend ending one past the last index when
\* it finds nothing
RECURSIVE FirstMatch_PastEnd(_, _, _)
FirstMatch_PastEnd(opts, defaultCLI, i) ==
  IF i > Len(opts) THEN Len(opts)
  ELSE IF EqualFold(opts[i], defaultCLI) THEN i - 1
       ELSE FirstMatch_PastEnd(opts, defaultCLI, i + 1)

RECURSIVE FirstMatch(_, _, _)
FirstMatch(opts, defaultCLI, i) ==
  IF i > Len(opts) THEN 0
  ELSE IF EqualFold(opts[i], defaultCLI) THEN i - 1
       ELSE FirstMatch(opts, defaultCLI, i + 1)

\* newModel, for the set of backends cliAvailable finds; cliIndex is 0-based
newModel(avail, defaultCLI) ==
  LET cliOptions == SelectSeq(allCLIOptions, LAMBDA n : n \in avail)
  IN  [ cliOptions |-> cliOptions,
        cliIndex |-> FirstMatch(cliOptions, defaultCLI, 1),
        input |-> <<>>,
        mode |-> modeInput,
        running |-> FALSE,
        status |-> helpInput,
        rawOutput |-> <<>>,
        options |-> <<>>,
        selected |-> 0,
        lastParseError |-> NoError,
        autoExecute |-> FALSE ]

currentCLI(mm) == mm.cliOptions[mm.cliIndex + 1]

\* nextCLI stopping at the last backend instead of wrapping around
nextCLI_NoWrap(mm) ==
  IF Len(mm.cliOptions) = 0 THEN mm
  ELSE LET m1 == [mm EXCEPT !.cliIndex =
                     IF mm.cliIndex + 1 < Len(mm.cliOptions) THEN mm.cliIndex + 1
                     ELSE mm.cliIndex]
       IN  [m1 EXCEPT !.status = Status("using", currentCLI(m1), <<>>)]

nextCLI(mm) ==
  IF Len(mm.cliOptions) = 0 THEN mm
  ELSE LET m1 == [mm EXCEPT !.cliIndex = (mm.cliIndex + 1) % Len(mm.cliOptions)]
       IN  [m1 EXCEPT !.status = Status("using", currentCLI(m1), <<>>)]

prevCLI(mm) ==
  IF Len(mm.cliOptions) = 0 THEN mm
  ELSE LET m1 == [mm EXCEPT !.cliIndex =
                     (mm.cliIndex - 1 + Len(mm.cliOptions)) % Len(mm.cliOptions)]
       IN  [m1 EXCEPT !.status = Status("using", currentCLI(m1), <<>>)]

\* moveSelection without the wrap-around
moveSelection_NoWrap(mm, delta) ==
  IF Len(mm.options) = 0 THEN mm
  ELSE [mm EXCEPT !.selected = mm.selected + delta]

\* moveSelection without the guard on an empty option list
moveSelection_NoEmptyGuard(mm, delta) ==
  IF Len(mm.options) = 0 THEN [mm EXCEPT !.selected = mm.selected + delta]
  ELSE [mm EXCEPT !.selected = (mm.selected + delta + Len(mm.options)) % Len(mm.options)]

moveSelection(mm, delta) ==
  IF Len(mm.options) = 0 THEN mm
  ELSE [mm EXCEPT !.selected = (mm.selected + delta + Len(mm.options)) % Len(mm.options)]

selectedValue(mm) ==
  IF Len(mm.options) = 0 THEN <<>>
  ELSE IF mm.selected < 0 \/ mm.selected >= Len(mm.options) THEN <<>>
       ELSE mm.options[mm.selected + 1].Value

----------------------------------------------------------------------------
(* Update and its handlers.  Each returns the new model and its commands.  *)

\* submitPrompt rejecting only the empty text, not the whitespace-only one
submitPrompt_NoTrimSpace(mm) ==
  LET userPrompt == TrimRightNewlines(mm.input)
  IN  IF userPrompt = <<>>
      THEN Ret([mm EXCEPT !.status = Status("prompt is empty", "", <<>>)], <<>>)
      ELSE Ret([mm EXCEPT !.running = TRUE,
                          !.mode = modeRunning,
                          !.status = Status("", "", <<>>),
                          !.options = <<>>,
                          !.lastParseError = NoError,
                          !.rawOutput = <<>>,
                          !.selected = 0],
               <<runPromptCmd(currentCLI(mm)), tickCmd>>)

\* submitPrompt calling the first backend whatever the active one is
submitPrompt_FirstCLI(mm) ==
  LET userPrompt == TrimRightNewlines(mm.input)
  IN  IF TrimSpace(userPrompt) = <<>>
      THEN Ret([mm EXCEPT !.status = Status("prompt is empty", "", <<>>)], <<>>)
      ELSE Ret([mm EXCEPT !.running = TRUE,
                          !.mode = modeRunning,
                          !.status = Status("", "", <<>>),
                          !.options = <<>>,
                          !.lastParseError = NoError,
                          !.rawOutput = <<>>,
                          !.selected = 0],
               <<runPromptCmd(mm.cliOptions[1]), tickCmd>>)

submitPrompt(mm) ==
  LET userPrompt == TrimRightNewlines(mm.input)
  IN  IF TrimSpace(userPrompt) = <<>>
      THEN Ret([mm EXCEPT !.status = Status("prompt is empty", "", <<>>)], <<>>)
      ELSE LET m1 == [mm EXCEPT !.running = TRUE,
                                !.mode = modeRunning,
                                !.status = Status("", "", <<>>),
                                !.options = <<>>,
                                !.lastParseError = NoError,
                                !.rawOutput = <<>>,
                                !.selected = 0]
               cliName == currentCLI(m1)
           IN  Ret(m1, <<runPromptCmd(cliName), tickCmd>>)

\* handleResponse without the early return on an execution error
handleResponse_ParseOnError(mm, msg) ==
  LET trimmed == TrimSpace(msg.output)
      respText == IF msg.err # NoErr /\ trimmed = <<>> THEN msg.err ELSE trimmed
      parsed == parseOptions(respText)
      m2 == [mm EXCEPT !.running = FALSE, !.mode = modeViewing,
                       !.rawOutput = respText, !.lastParseError = NoError]
  IN  IF parsed.err # NoError
      THEN Ret([m2 EXCEPT !.lastParseError = IF msg.err # NoErr THEN NoError ELSE parsed.err,
                          !.status = Status("parse error", "", <<>>),
                          !.options = <<>>,
                          !.selected = 0], <<>>)
      ELSE Ret([m2 EXCEPT !.options = parsed.opts,
                          !.selected = 0,
                          !.status = helpViewing], <<>>)

\* handleResponse running the raw output when auto-execute finds no option
handleResponse_AutoRunsRaw(mm, msg) ==
  LET trimmed == TrimSpace(msg.output)
      respText == IF msg.err # NoErr /\ trimmed = <<>> THEN msg.err ELSE trimmed
      parsed == parseOptions(respText)
      m2 == [mm EXCEPT !.running = FALSE, !.mode = modeViewing,
                       !.rawOutput = respText, !.lastParseError = NoError,
                       !.selected = 0]
  IN  IF msg.err = NoErr /\ parsed.err = NoError
      THEN Ret([m2 EXCEPT !.options = parsed.opts, !.status = helpViewing], <<>>)
      ELSE IF mm.autoExecute /\ respText # <<>>
      THEN Ret([m2 EXCEPT !.options = <<>>,
                          !.status = Status("running", "", cleanText(respText)),
                          !.autoExecute = FALSE],
               <<execWithFeedback(respText, TRUE)>>)
      ELSE Ret([m2 EXCEPT !.options = <<>>,
                          !.lastParseError = IF msg.err # NoErr THEN NoError ELSE parsed.err,
                          !.status = Status("parse error", "", <<>>)], <<>>)

\* handleResponse leaving mode and the running flag as they are
handleResponse_KeepsMode(mm, msg) ==
  LET trimmed == TrimSpace(msg.output)
      respText == IF msg.err # NoErr /\ trimmed = <<>> THEN msg.err ELSE trimmed
      parsed == parseOptions(respText)
      m2 == [mm EXCEPT !.rawOutput = respText, !.lastParseError = NoError,
                       !.selected = 0]
  IN  IF msg.err # NoErr
      THEN Ret([m2 EXCEPT !.status = Status("error from", msg.cli, <<>>),
                          !.options = <<>>], <<>>)
      ELSE IF parsed.err # NoError
      THEN Ret([m2 EXCEPT !.lastParseError = parsed.err,
                          !.status = Status("parse error", "", <<>>),
                          !.options = <<>>], <<>>)
      ELSE Ret([m2 EXCEPT !.options = parsed.opts, !.status = helpViewing], <<>>)

handleResponse(mm, msg) ==
  LET m1 == [mm EXCEPT !.running = FALSE, !.mode = modeViewing]
      trimmed == TrimSpace(msg.output)
      respText == IF msg.err # NoErr /\ trimmed = <<>> THEN msg.err ELSE trimmed
      m2 == [m1 EXCEPT !.rawOutput = respText, !.lastParseError = NoError]
      parsed == parseOptions(respText)
  IN  IF msg.err # NoErr
      THEN Ret([m2 EXCEPT !.status = Status("error from", msg.cli, <<>>),
                          !.options = <<>>,
                          !.selected = 0], <<>>)
      ELSE IF parsed.err # NoError
      THEN Ret([m2 EXCEPT !.lastParseError = parsed.err,
                          !.status = Status("parse error", "", <<>>),
                          !.options = <<>>,
                          !.selected = 0], <<>>)
      ELSE LET m3 == [m2 EXCEPT !.options = parsed.opts,
                                !.selected = 0,
                                !.status = helpViewing]
           IN  IF m3.autoExecute /\ Len(parsed.opts) > 0
               THEN LET value == parsed.opts[1].Value
                    IN  Ret([m3 EXCEPT !.status = Status("running", "", cleanText(value)),
                                       !.autoExecute = FALSE],
                            <<execWithFeedback(value, TRUE)>>)
               ELSE Ret(m3, <<>>)

\* the keys, by msg.String()
isNewline_OnlyCtrlJ(key) == key = "ctrl+j"
isNewline(key) == key \in {"alt+enter", "ctrl+j"}
isCtrlR(key) == key = "ctrl+r"
isCtrlEnter(key) == key = "ctrl+enter"
isKeyEnter(key) == key = "enter"
isKeyCtrlC(key) == key = "ctrl+c"

\* the textarea's own Update: a printable key inserts its character and
\* KeyEnter inserts a line break (the cursor stays at the end of the text)
textareaUpdate(value, key) ==
  IF key \in {"q", " "} THEN Append(value, key)
  ELSE IF key = "enter" THEN Append(value, "\n")
  ELSE value

updateInput(mm, key) == Ret([mm EXCEPT !.input = textareaUpdate(mm.input, key)], <<>>)

handleInputKeys(mm, key) ==
  IF isKeyCtrlC(key) \/ key = "esc" THEN Ret(mm, <<teaQuit>>)
  ELSE IF key = "ctrl+n" THEN Ret(nextCLI(mm), <<>>)
  ELSE IF key = "ctrl+p" THEN Ret(prevCLI(mm), <<>>)
  ELSE IF isNewline(key) THEN updateInput(mm, "enter")
  ELSE IF isCtrlR(key) THEN submitPrompt([mm EXCEPT !.autoExecute = TRUE])
  ELSE IF isKeyEnter(key) \/ isCtrlEnter(key)
       THEN submitPrompt([mm EXCEPT !.autoExecute = FALSE])
  ELSE updateInput(mm, key)

\* clipOk: whether clipboard.WriteAll succeeds, should the handler call it
handleViewingKeys(mm, key, clipOk) ==
  IF isKeyCtrlC(key) \/ key = "esc" \/ key = "q" THEN Ret(mm, <<teaQuit>>)
  ELSE IF isNewline(key)
  THEN Ret([mm EXCEPT !.mode = modeInput,
                      !.running = FALSE,
                      !.input = <<>>,
                      !.status = helpInput,
                      !.options = <<>>,
                      !.lastParseError = NoError,
                      !.rawOutput = <<>>,
                      !.autoExecute = FALSE], <<>>)
  ELSE IF isCtrlR(key)
  THEN LET sel == selectedValue(mm)
           value == IF sel = <<>> THEN mm.rawOutput ELSE sel
       IN  IF sel = <<>> /\ mm.rawOutput = <<>>
           THEN Ret([mm EXCEPT !.status = Status("nothing to run", "", <<>>)], <<>>)
           ELSE Ret([mm EXCEPT !.status = Status("running", "", cleanText(value))],
                    <<execWithFeedback(value, TRUE)>>)
  ELSE IF isKeyEnter(key)
  THEN LET sel == selectedValue(mm)
           value == IF sel = <<>> THEN mm.rawOutput ELSE sel
       IN  IF sel = <<>> /\ mm.rawOutput = <<>>
           THEN Ret([mm EXCEPT !.status = Status("nothing to copy", "", <<>>)], <<>>)
           ELSE IF ~clipOk
           THEN Ret([mm EXCEPT !.status = Status("CLIPBOARD FAILED", "", <<>>)], <<>>)
           ELSE RetClip([mm EXCEPT !.status = Status("Copied to clipboard", "", value)],
                        <<teaQuit>>, value)
  ELSE IF key = "up" \/ key = "k" THEN Ret(moveSelection(mm, -1), <<>>)
  ELSE IF key = "down" \/ key = "j" THEN Ret(moveSelection(mm, 1), <<>>)
  ELSE Ret(mm, <<>>)

\* handleRunningKeys that also cycles the backend
handleRunningKeys_Cycling(mm, key) ==
  IF isKeyCtrlC(key) \/ key = "esc" THEN Ret(mm, <<teaQuit>>)
  ELSE IF key = "ctrl+n" THEN Ret(nextCLI(mm), <<>>)
  ELSE IF key = "ctrl+p" THEN Ret(prevCLI(mm), <<>>)
  ELSE Ret(mm, <<>>)

\* handleRunningKeys ignoring every key
handleRunningKeys_NoQuit(mm, key) == Ret(mm, <<>>)

handleRunningKeys(mm, key) ==
  IF isKeyCtrlC(key) \/ key = "esc" THEN Ret(mm, <<teaQuit>>)
  ELSE Ret(mm, <<>>)

handleKeyMsg(mm, key, clipOk) ==
  CASE mm.mode = modeInput -> handleInputKeys(mm, key)
    [] mm.mode = modeRunning -> handleRunningKeys(mm, key)
    [] mm.mode = modeViewing -> handleViewingKeys(mm, key, clipOk)
    [] OTHER -> Ret(mm, <<>>)

\* Update, case tickMsg
updateTick(mm) ==
  IF mm.running
  THEN Ret(mm, <<tickCmd>>)
  ELSE Ret(mm, <<>>)

\* the execResultMsg case leaving the running flag as it is on a failure
updateExecResult_KeepsRunning(mm, msg) ==
  IF msg.err # NoErr
  THEN Ret([mm EXCEPT !.mode = modeViewing,
                      !.status = Status("exec failed", "", msg.err)], <<>>)
  ELSE IF msg.exit THEN Ret(mm, <<teaQuit>>)
  ELSE Ret(mm, <<>>)

\* Update, case execResultMsg
updateExecResult(mm, msg) ==
  IF msg.err # NoErr
  THEN Ret([mm EXCEPT !.running = FALSE,
                      !.mode = modeViewing,
                      !.status = Status("exec failed", "", msg.err)], <<>>)
  ELSE IF msg.exit THEN Ret(mm, <<teaQuit>>)
  ELSE Ret(mm, <<>>)

----------------------------------------------------------------------------
(* The environment: the user, the backends, the shell and the clipboard    *)

Keys == {"ctrl+c", "q", " ", "ctrl+n", "ctrl+p", "alt+enter",
         "ctrl+r", "enter", "up", "down"}

\* what cliAvailable may find installed (nothing, one backend, three of the
\* four), and the -cli flag
Installations == {{}, {"opencode"}, {"codex", "claude", "gemini"}}
DefaultCLIs == {"Claude", "bard"}

\* err.Error() of a failed backend call or shell command
ExitErr == <<"e", "x", "i", "t", " ", "1">>
Errors == {NoErr, ExitErr}

\* combined outputs a backend may produce
Outputs == { <<>>,
             <<"o", "k", "{E}", "\n">>,
             <<"{M}", "{D}", "\n">>,
             <<"{V}">> }

responseMsg(output, err, cli) == [output |-> output, err |-> err, cli |-> cli]
execResultMsg(err, exit) == [err |-> err, exit |-> exit]

OfType(cmds, type) == SelectSeq(cmds, LAMBDA c : c.type = type)

\* the pending commands of one kind are a bag: they complete in any order
RECURSIVE BagOfSeq(_)
BagOfSeq(s) ==
  IF s = <<>> THEN EmptyBag ELSE SetToBag({Head(s)}) (+) BagOfSeq(Tail(s))

\* a backend call in flight: the name its closure captured (cli), and, for the
\* record, the runner that was active when it was submitted (at) and the
\* auto-execute flag its submission set (auto)
InFlight(cmd, auto) == [cli |-> cmd.cli, at |-> currentCLI(m), auto |-> auto]

\* a shell command handed to the runtime: what is pending is the callback
\* that turns the command's error into an execResultMsg
ExecCallback(cmd) == [exit |-> cmd.exit]

\* the runtime takes the model an Update returned and starts its commands;
\* calls0, execs0, ticks0 are the pending commands less the one just delivered.
\* When the program quits nothing is delivered any more.
Apply(r, calls0, execs0, ticks0) ==
  LET newCalls == OfType(r.cmds, "call")
      newExecs == OfType(r.cmds, "exec")
      newTicks == Len(OfType(r.cmds, "tick"))
      quitting == OfType(r.cmds, "quit") # <<>>
  IN  /\ BagCardinality(calls0) + Len(newCalls) <= MaxInFlight
      /\ BagCardinality(execs0) + Len(newExecs) <= MaxExecs
      /\ ticks0 + newTicks <= MaxTicks
      /\ Len(r.m.input) <= MaxInput
      /\ m' = r.m
      /\ calls' = IF quitting THEN EmptyBag
                  ELSE calls0 (+) BagOfSeq([i \in 1..Len(newCalls) |->
                                             InFlight(newCalls[i], r.m.autoExecute)])
      /\ execs' = IF quitting THEN EmptyBag
                  ELSE execs0 (+) BagOfSeq([i \in 1..Len(newExecs) |->
                                             ExecCallback(newExecs[i])])
      /\ ticks' = IF quitting THEN 0 ELSE ticks0 + newTicks
      /\ clipboard' = IF r.clip.written THEN r.clip.value ELSE clipboard
      /\ quit' = quitting
      /\ fn' = fn
      /\ completed' = completed

\* no function of prompt.go is being applied on its own
Idle == [name |-> "", arg |-> <<>>, res |-> <<>>]

InitProgram ==
  /\ \E avail \in Installations, defaultCLI \in DefaultCLIs :
        m = newModel(avail, defaultCLI)
  /\ calls = EmptyBag
  /\ execs = EmptyBag
  /\ ticks = 0
  /\ clipboard = <<>>
  /\ quit = (m.cliOptions = <<>>)   \* logFatalSchema: log.Fatalf ends the process
  /\ completed = <<>>

Init == InitProgram /\ fn = Idle

\* Update, case tea.KeyMsg; clipboard.WriteAll may fail when Update calls it
KeyMsg ==
  /\ ~quit
  /\ \E key \in Keys :
       \E clipOk \in IF m.mode = modeViewing /\ isKeyEnter(key) THEN BOOLEAN ELSE {TRUE} :
          Apply(handleKeyMsg(m, key, clipOk), calls, execs, ticks)

\* Update, case tickMsg: a sleeping tickCmd returns
TickMsg ==
  /\ ~quit
  /\ ticks > 0
  /\ Apply(updateTick(m), calls, execs, ticks - 1)

\* Update, case responseMsg: a backend call returns its output and error
ResponseMsg ==
  /\ ~quit
  /\ \E c \in BagToSet(calls), output \in Outputs, err \in Errors :
        Apply(handleResponse(m, responseMsg(output, err, c.cli)),
              calls (-) SetToBag({c}), execs, ticks)

\* Update, case execResultMsg: the shell command has run
ExecResultMsg ==
  /\ ~quit
  /\ \E c \in BagToSet(execs), ok \in BOOLEAN :
        Apply(updateExecResult(m, IF ok THEN execResultMsg(NoErr, c.exit)
                                        ELSE execResultMsg(ExitErr, FALSE)),
              calls, execs (-) SetToBag({c}), ticks)

Next == KeyMsg \/ TickMsg \/ ResponseMsg \/ ExecResultMsg

Spec == Init /\ [][Next]_vars

\* Every backend call returns: its context has a five-minute deadline, so the
\* command's function ends and the runtime delivers its responseMsg.
LiveSpec == Spec /\ WF_vars(ResponseMsg)

----------------------------------------------------------------------------
(* The functions of prompt.go applied on their own to bounded inputs       *)

SeqsUpTo(S, n) == UNION {[1..k -> S] : k \in 0..n}

\* texts for parseOptions: plain characters and marker texts
TextTokens == {"x", "{A}", "{B}", "{E}", "{N}", "{M}"}
Texts == SeqsUpTo(TextTokens, MaxText)

\* decoded option lists for the ranking: the value of an option names its
\* 0-based index in the decoded list
RankValues == {-1, 0, 1, 2, 3, 5}
OptionList(ranks) ==
  [i \in 1..Len(ranks) |-> optionEntry(<<ToString(i - 1)>>, <<>>, ranks[i])]
OptionLists == {OptionList(ranks) : ranks \in SeqsUpTo(RankValues, MaxOpts)}

\* strings for cleanText
CleanChars == {"a", " ", "\n", "\t"}
CleanInputs == SeqsUpTo(CleanChars, MaxClean)

PureCall(name, arg) == [name |-> name, arg |-> arg, res |-> <<>>]

PureInit ==
  /\ InitProgram
  /\ \/ \E raw \in Texts : fn = PureCall("parseOptions", raw)
     \/ \E opts \in OptionLists : fn = PureCall("SliceStable", opts)
     \/ \E s \in CleanInputs : fn = PureCall("cleanText", s)

\* opts, err := parseOptions(raw)
CallParseOptions ==
  /\ fn.name = "parseOptions" /\ fn.res = <<>>
  /\ fn' = [fn EXCEPT !.res = <<parseOptions(fn.arg)>>]
  /\ UNCHANGED <<m, calls, execs, ticks, clipboard, quit, completed>>

\* sort.SliceStable(opts, less)
CallSliceStable ==
  /\ fn.name = "SliceStable" /\ fn.res = <<>>
  /\ fn' = [fn EXCEPT !.res = <<SliceStable(fn.arg)>>]
  /\ UNCHANGED <<m, calls, execs, ticks, clipboard, quit, completed>>

\* cleanText applied to the argument, then once more to its own result
CallCleanText ==
  /\ fn.name = "cleanText" /\ Len(fn.res) < 2
  /\ fn' = [fn EXCEPT !.res = Append(fn.res,
                 cleanText(IF fn.res = <<>> THEN fn.arg ELSE fn.res[Len(fn.res)]))]
  /\ UNCHANGED <<m, calls, execs, ticks, clipboard, quit, completed>>

PureNext == CallParseOptions \/ CallSliceStable \/ CallCleanText

PureSpec == PureInit /\ [][PureNext]_vars

----------------------------------------------------------------------------
(* Properties.  A property of a handler is stated on every reachable state: *)
(* whatever message the handler may be given there, its result is as said.  *)

SubmitKeys == {"enter", "ctrl+r"}
CycleKeys == {"ctrl+n", "ctrl+p"}

\* empty or whitespace-only
Blank(s) == \A i \in 1..Len(s) : IsSpace(s[i])

InFlightCount == BagCardinality(calls)

ExactlyOne(a, b, c) == (a /\ ~b /\ ~c) \/ (~a /\ b /\ ~c) \/ (~a /\ ~b /\ c)

\* the completion of call c with the given output and error
Completion(c, output, err) == handleResponse(m, responseMsg(output, err, c.cli))

\* C1: while the session runs at most one backend call is in flight, and
\* mode is Running exactly when one call is in flight.
C1_OneCallInFlight ==
  ~quit => /\ InFlightCount <= 1
           /\ (m.mode = modeRunning) <=> (InFlightCount = 1)

\* C2 as claimed: a blank submission (Enter or ctrl+r) from Composing
\* dispatches nothing and changes nothing but the status message.
C2_BlankSubmitOnlySetsStatus ==
  (~quit /\ m.mode = modeInput /\ Blank(m.input)) =>
    \A key \in SubmitKeys :
      LET r == handleKeyMsg(m, key, TRUE)
      IN  /\ r.cmds = <<>>
          /\ r.clip = NoClip
          /\ r.m = [m EXCEPT !.status = Status("prompt is empty", "", <<>>)]

\* C2 as amended: a blank submission (Enter or ctrl+r) from Composing stays
\* in Composing, dispatches no backend call and no tick, and sets the status
\* to the empty-prompt notice and the auto-execute flag to the key's (true for
\* ctrl+r, false for Enter); options, raw output, parse error, active runner
\* index and everything else are unchanged.
C2_BlankSubmit ==
  (~quit /\ m.mode = modeInput /\ Blank(m.input)) =>
    \A key \in SubmitKeys :
      LET r == handleKeyMsg(m, key, TRUE)
      IN  /\ r.cmds = <<>>
          /\ r.clip = NoClip
          /\ r.m.mode = modeInput
          /\ r.m = [m EXCEPT !.status = Status("prompt is empty", "", <<>>),
                             !.autoExecute = (key = "ctrl+r")]

\* a whitespace-only text was submitted with ctrl+r and rejected
C2_Witness ==
  /\ ~quit /\ m.mode = modeInput /\ m.input = <<" ">>
  /\ m.status.kind = "prompt is empty" /\ m.autoExecute
  /\ calls = EmptyBag /\ ticks = 0

\* C3: in Reviewing with options, 0 <= selected < len(options); and with no
\* options the selected value reads as the empty string.
C3_SelectionInRange ==
  /\ (m.mode = modeViewing /\ Len(m.options) > 0) =>
        (0 <= m.selected /\ m.selected < Len(m.options))
  /\ Len(m.options) = 0 => selectedValue(m) = <<>>

\* the selection was moved to the last of two options
C3_Witness ==
  ~quit /\ m.mode = modeViewing /\ Len(m.options) = 2 /\ m.selected = 1

\* C4 as claimed: after a completion exactly one holds of: options non-empty,
\* parse error set, raw output is the execution error's text.
C4_ExactlyOneOrErrorText ==
  ~quit =>
    \A c \in BagToSet(calls), output \in Outputs, err \in Errors :
      LET r == Completion(c, output, err)
      IN  ExactlyOne(Len(r.m.options) > 0,
                     r.m.lastParseError # NoError,
                     err # NoErr /\ r.m.rawOutput = err)

\* C4 as amended: after a completion the machine is in Reviewing and exactly
\* one holds of: options non-empty, parse error set, the call returned an
\* execution error; in the last case the raw output is the trimmed backend
\* output or, when that is empty, the error's text.
C4_ExactlyOneOutcome ==
  ~quit =>
    \A c \in BagToSet(calls), output \in Outputs, err \in Errors :
      LET r == Completion(c, output, err)
      IN  /\ r.m.mode = modeViewing
          /\ ExactlyOne(Len(r.m.options) > 0,
                        r.m.lastParseError # NoError,
                        err # NoErr)
          /\ err # NoErr =>
               r.m.rawOutput = IF TrimSpace(output) = <<>> THEN err ELSE TrimSpace(output)

\* a call has completed with an execution error and a non-empty output
C4_Witness ==
  /\ ~quit /\ m.mode = modeViewing /\ m.status.kind = "error from"
  /\ m.rawOutput # <<>> /\ m.rawOutput # ExitErr
  /\ m.options = <<>> /\ m.lastParseError = NoError

\* C5 as claimed: while Running a cycling request changes the active runner.
C5_CycleAcceptedWhileRunning ==
  (~quit /\ m.mode = modeRunning /\ Len(m.cliOptions) > 1) =>
    \A key \in CycleKeys : handleKeyMsg(m, key, TRUE).m.cliIndex # m.cliIndex

\* C5 as amended: while Running a cycling request is ignored (the active
\* runner index and the rest of the state are unchanged, nothing is
\* dispatched), and a submission is dispatched to the runner that is active
\* when it is made.
C5_CycleIgnoredWhileRunning ==
  /\ (~quit /\ m.mode = modeRunning) =>
        \A key \in CycleKeys : handleKeyMsg(m, key, TRUE) = Ret(m, <<>>)
  /\ (~quit /\ m.mode = modeInput /\ ~Blank(m.input)) =>
        \A key \in SubmitKeys :
          OfType(handleKeyMsg(m, key, TRUE).cmds, "call")
            = <<runPromptCmd(m.cliOptions[m.cliIndex + 1])>>

\* a call is in flight in Running and there is another runner to cycle to
C5_Witness ==
  /\ ~quit /\ m.mode = modeRunning /\ InFlightCount = 1
  /\ Len(m.cliOptions) > 1 /\ m.cliIndex = 1

\* C6 as claimed: cycling acts in each of Composing, Running and Reviewing,
\* and a call in flight keeps the runner of its submission.
C6_CycleInEveryMode ==
  ~quit =>
    /\ \A c \in BagToSet(calls) : c.cli = c.at
    /\ Len(m.cliOptions) > 1 =>
         \A key \in CycleKeys : handleKeyMsg(m, key, TRUE).m.cliIndex # m.cliIndex

\* C6 as amended: cycling acts in Composing only (in Running and Reviewing
\* the cycle keys change nothing); there it changes the active runner index
\* and the status and nothing else, dispatches nothing, and every call in
\* flight keeps the runner that was active when it was submitted.
C6_CycleKeepsInFlight ==
  ~quit =>
    /\ \A c \in BagToSet(calls) : c.cli = c.at
    /\ \A key \in CycleKeys :
         LET r == handleKeyMsg(m, key, TRUE)
             n == Len(m.cliOptions)
             to == IF key = "ctrl+n" THEN (m.cliIndex + 1) % n
                                     ELSE (m.cliIndex + n - 1) % n
         IN  /\ r.cmds = <<>>
             /\ m.mode # modeInput => r.m = m
             /\ m.mode = modeInput =>
                  r.m = [m EXCEPT !.cliIndex = to,
                                  !.status = Status("using", m.cliOptions[to + 1], <<>>)]

\* the active runner was cycled away from the runner of a call in flight
C6_Witness ==
  /\ ~quit /\ m.mode = modeInput
  /\ \E c \in BagToSet(calls) : c.cli = c.at /\ c.cli # currentCLI(m)

\* C7: a call submitted with ctrl+r whose completion parses to options makes
\* the completion handler itself dispatch the run of the top-ranked option's
\* value, and the success of that run ends the session.
C7_AutoExecuteRunsTopOption ==
  ~quit =>
    \A c \in BagToSet(calls), output \in Outputs :
      (c.auto /\ parseOptions(TrimSpace(output)).err = NoError) =>
        LET r == Completion(c, output, NoErr)
        IN  /\ r.cmds = <<execWithFeedback(r.m.options[1].Value, TRUE)>>
            /\ updateExecResult(r.m, execResultMsg(NoErr, TRUE)).cmds = <<teaQuit>>

\* C8: when the auto-execute flag is set and the completion is an execution
\* error, a parse failure or has no options, no shell command is dispatched
\* and the machine is in Reviewing with no options and the raw output (and
\* the parse error, if any) retained; reset returns to Composing, and run
\* and copy act on the raw output.
C8_AutoExecuteFallsBack ==
  ~quit =>
    \A c \in BagToSet(calls), output \in Outputs, err \in Errors :
      ((c.auto \/ m.autoExecute)
         /\ (err # NoErr \/ parseOptions(TrimSpace(output)).err # NoError)) =>
        LET r == Completion(c, output, err)
            raw == IF err # NoErr /\ TrimSpace(output) = <<>> THEN err
                   ELSE TrimSpace(output)
        IN  /\ r.cmds = <<>>
            /\ r.m.mode = modeViewing /\ ~r.m.running
            /\ r.m.options = <<>>
            /\ r.m.rawOutput = raw
            /\ r.m.lastParseError = IF err = NoErr THEN ParseFailed ELSE NoError
            /\ handleKeyMsg(r.m, "alt+enter", TRUE).m.mode = modeInput
            /\ raw # <<>> =>
                 /\ handleKeyMsg(r.m, "ctrl+r", TRUE).cmds = <<execWithFeedback(raw, TRUE)>>
                 /\ handleKeyMsg(r.m, "enter", TRUE).clip = [written |-> TRUE, value |-> raw]

\* a ctrl+r submission has ended in a parse failure and nothing was run
C8_Witness ==
  /\ ~quit /\ m.mode = modeViewing /\ m.autoExecute
  /\ m.lastParseError = ParseFailed /\ m.rawOutput # <<>>
  /\ m.options = <<>> /\ execs = EmptyBag

\* what C9 and C10 say copy and run act on: the selected option's value as
\* stored, or the raw output when there are no options
ClaimedTarget ==
  IF Len(m.options) > 0 THEN m.options[m.selected + 1].Value ELSE m.rawOutput

\* C9: in Reviewing, copy writes the selected option's value as stored, or
\* the raw output when no option is selected; a successful write ends the
\* session; a failed write changes nothing but the status message.
C9_CopyWritesSelectedValue ==
  (~quit /\ m.mode = modeViewing /\ (Len(m.options) > 0 \/ m.rawOutput # <<>>)) =>
    LET ok == handleKeyMsg(m, "enter", TRUE)
        ko == handleKeyMsg(m, "enter", FALSE)
    IN  /\ ok.clip = [written |-> TRUE, value |-> ClaimedTarget]
        /\ ok.cmds = <<teaQuit>>
        /\ ko.clip = NoClip
        /\ ko.cmds = <<>>
        /\ ko.m = [m EXCEPT !.status = Status("CLIPBOARD FAILED", "", <<>>)]

\* C10: in Reviewing, run executes the selected option's stored value, or the
\* raw output when there are no options; the command's success ends the
\* session; its failure leaves the machine in Reviewing with options,
\* selection and raw output unchanged and the failure in the status.
C10_RunExecutesSelectedValue ==
  (~quit /\ m.mode = modeViewing /\ (Len(m.options) > 0 \/ m.rawOutput # <<>>)) =>
    LET r == handleKeyMsg(m, "ctrl+r", TRUE)
        ok == updateExecResult(r.m, execResultMsg(NoErr, TRUE))
        ko == updateExecResult(r.m, execResultMsg(ExitErr, FALSE))
    IN  /\ r.cmds = <<execWithFeedback(ClaimedTarget, TRUE)>>
        /\ ok.cmds = <<teaQuit>>
        /\ ko.cmds = <<>>
        /\ ko.m = [r.m EXCEPT !.mode = modeViewing,
                              !.status = Status("exec failed", "", ExitErr)]

SelectKeys == {"up", "down"}

\* C11 as claimed: in Reviewing with zero options the select-move keys leave
\* the state unchanged, and copy writes the raw output to the clipboard and
\* run executes it, for every raw output, the empty one included.
C11_ZeroOptionsActOnAnyRaw ==
  (~quit /\ m.mode = modeViewing /\ Len(m.options) = 0) =>
    /\ \A key \in SelectKeys : handleKeyMsg(m, key, TRUE) = Ret(m, <<>>)
    /\ handleKeyMsg(m, "enter", TRUE).clip = [written |-> TRUE, value |-> m.rawOutput]
    /\ handleKeyMsg(m, "ctrl+r", TRUE).cmds = <<execWithFeedback(m.rawOutput, TRUE)>>

\* C11 as amended: in Reviewing with zero options the select-move keys leave
\* the whole state unchanged; when the raw output is non-empty, copy writes it
\* to the clipboard and run executes it; when the raw output is empty, copy
\* and run write and dispatch nothing and only set the status message.
C11_ZeroOptionsFallBack ==
  (~quit /\ m.mode = modeViewing /\ Len(m.options) = 0) =>
    LET copy == handleKeyMsg(m, "enter", TRUE)
        run == handleKeyMsg(m, "ctrl+r", TRUE)
    IN  /\ \A key \in SelectKeys : handleKeyMsg(m, key, TRUE) = Ret(m, <<>>)
        /\ m.rawOutput # <<>> =>
             /\ copy.clip = [written |-> TRUE, value |-> m.rawOutput]
             /\ copy.cmds = <<teaQuit>>
             /\ run.cmds = <<execWithFeedback(m.rawOutput, TRUE)>>
        /\ m.rawOutput = <<>> =>
             /\ copy = Ret([m EXCEPT !.status = Status("nothing to copy", "", <<>>)], <<>>)
             /\ run = Ret([m EXCEPT !.status = Status("nothing to run", "", <<>>)], <<>>)

\* an exchange completed with an empty output, and copy found nothing to copy
C11_Witness ==
  /\ ~quit /\ m.mode = modeViewing /\ m.options = <<>>
  /\ m.lastParseError = ParseFailed /\ m.rawOutput = <<>>
  /\ m.status.kind = "nothing to copy"

\* the keys that quit in every mode
QuitKeys == {"ctrl+c", "esc"}

\* C12: in each of Composing, Running and Reviewing a quit key ends the
\* session at once, without any other change and without waiting for a call
\* in flight; and once the session has ended nothing changes any more, so a
\* completion arriving after the quit has no effect.
C12_QuitEndsSession ==
  /\ [](~quit => \A key \in QuitKeys : handleKeyMsg(m, key, TRUE) = Ret(m, <<teaQuit>>))
  /\ [](quit => (calls = EmptyBag /\ execs = EmptyBag /\ ticks = 0))
  /\ [][~quit]_vars

\* the session was ended while a backend call was running
C12_Witness == quit /\ m.mode = modeRunning /\ m.running

\* C13: every Running state is eventually left: unless the user quits, the
\* call's one completion arrives and puts the machine in Reviewing, with the
\* error shown when the call ended in one (as when its deadline expired).
\* While Running a call is in flight, so that completion is still to come.
C13_RunningIsLeft ==
  /\ (m.mode = modeRunning /\ ~quit) ~> (m.mode = modeViewing \/ quit)
  /\ [][(m.mode = modeRunning /\ m'.mode # modeRunning) => m'.mode = modeViewing]_vars
  /\ []((m.mode = modeRunning /\ ~quit) => InFlightCount >= 1)
  /\ [](~quit =>
          \A c \in BagToSet(calls), output \in Outputs, err \in Errors :
            LET r == Completion(c, output, err)
            IN  /\ r.m.mode = modeViewing /\ ~r.m.running
                /\ err # NoErr => r.m.status = Status("error from", c.cli, <<>>))

\* a call has ended in an error and nothing is pending any more
C13_Witness ==
  /\ ~quit /\ m.mode = modeViewing /\ ~m.running
  /\ m.status.kind = "error from"
  /\ calls = EmptyBag /\ ticks = 0

\* the keys isNewline accepts: in Reviewing they reset
ResetKeys == {"alt+enter", "ctrl+j"}

\* C14: reset in Reviewing moves to Composing with options empty, parse error
\* cleared, raw output empty, input text empty, auto-execute false and the
\* status equal to the input help; the active runner index (and the selection
\* index) are unchanged and nothing is dispatched.
C14_ResetClearsExchange ==
  (~quit /\ m.mode = modeViewing) =>
    \A key \in ResetKeys :
      LET r == handleKeyMsg(m, key, TRUE)
      IN  /\ r.cmds = <<>> /\ r.clip = NoClip
          /\ r.m.cliIndex = m.cliIndex
          /\ r.m = [m EXCEPT !.mode = modeInput,
                             !.running = FALSE,
                             !.input = <<>>,
                             !.status = helpInput,
                             !.options = <<>>,
                             !.lastParseError = NoError,
                             !.rawOutput = <<>>,
                             !.autoExecute = FALSE]

\* reset was made in Reviewing with the second option selected and the second
\* runner active
C14_Witness ==
  /\ ~quit /\ m.mode = modeInput /\ m.status = helpInput /\ m.input = <<>>
  /\ m.selected = 1 /\ m.cliIndex = 1

\* err.Error() of a backend call that exited non-zero, was killed, or ran
\* into the deadline of its context
KilledErr == <<"k", "i", "l", "l", "e", "d">>
DeadlineErr == <<"d", "e", "a", "d", "l", "i", "n", "e">>
ExecutionErrors == {ExitErr, KilledErr, DeadlineErr}

\* C15: a completion with an execution error puts the machine in Reviewing
\* with no options and no parse error, the raw output being the trimmed
\* output or, when that is empty, the error's text; the session does not end,
\* and reset followed by a non-blank submission starts a new call.
C15_ExecutionErrorShown ==
  ~quit =>
    \A c \in BagToSet(calls), output \in Outputs, err \in ExecutionErrors :
      LET r == Completion(c, output, err)
          composing == handleKeyMsg(r.m, "alt+enter", TRUE).m
          typed == handleKeyMsg(composing, "q", TRUE).m
          retry == handleKeyMsg(typed, "enter", TRUE)
      IN  /\ r.cmds = <<>>
          /\ r.m.mode = modeViewing
          /\ r.m.options = <<>>
          /\ r.m.lastParseError = NoError
          /\ r.m.rawOutput = IF TrimSpace(output) = <<>> THEN err ELSE TrimSpace(output)
          /\ composing.mode = modeInput
          /\ retry.m.mode = modeRunning
          /\ OfType(retry.cmds, "call") = <<runPromptCmd(currentCLI(m))>>

\* a call failed without output: the error's text is the raw output
C15_Witness ==
  /\ ~quit /\ m.mode = modeViewing /\ m.status.kind = "error from"
  /\ m.rawOutput = ExitErr /\ m.options = <<>> /\ m.lastParseError = NoError

\* the candidate at position i of a text decodes to an object with a
\* non-empty options array
GoodCandidate(text, i) ==
  IsMarker(text[i]) /\ Decode(text[i]).ok /\ Len(Decode(text[i]).Options) > 0

\* the text contains no valid options JSON
NoValidOptions(text) == \A i \in 1..Len(text) : ~GoodCandidate(text, i)

\* outputs of a successful call without valid options JSON: none at all,
\* plain text, an object whose options is no array, an empty array, a
\* truncated object
MalformedOutputs ==
  { <<>>,
    <<"l", "s", " ", "-", "l", "a">>,
    <<"{N}">>,
    <<"o", "k", "{E}", "\n">>,
    <<" ", "{M}", "q">> }

\* C16 as claimed: a successful call whose output has no valid options JSON
\* ends in Reviewing with the parse error set, no options and the raw output
\* retained, and copy then writes that raw output to the clipboard.
C16_ParseFailureCopiesRaw ==
  ~quit =>
    \A c \in BagToSet(calls), output \in Outputs \cup MalformedOutputs :
      NoValidOptions(output) =>
        LET r == Completion(c, output, NoErr)
        IN  /\ r.m.mode = modeViewing
            /\ r.m.lastParseError = ParseFailed
            /\ r.m.options = <<>>
            /\ handleKeyMsg(r.m, "enter", TRUE).clip
                 = [written |-> TRUE, value |-> r.m.rawOutput]

\* C16 as amended: a successful call whose output has no valid options JSON
\* ends in Reviewing with the parse error set, no options, nothing dispatched
\* and the raw output (the output trimmed of surrounding whitespace)
\* retained; copy then writes that raw output to the clipboard when it is
\* non-empty, and writes nothing and only reports "nothing to copy" when it
\* is empty.
C16_ParseFailureKeepsRaw ==
  ~quit =>
    \A c \in BagToSet(calls), output \in Outputs \cup MalformedOutputs :
      NoValidOptions(output) =>
        LET r == Completion(c, output, NoErr)
            copy == handleKeyMsg(r.m, "enter", TRUE)
        IN  /\ r.cmds = <<>>
            /\ r.m.mode = modeViewing
            /\ r.m.lastParseError = ParseFailed
            /\ r.m.options = <<>>
            /\ r.m.rawOutput = TrimSpace(output)
            /\ r.m.rawOutput # <<>> =>
                 copy.clip = [written |-> TRUE, value |-> r.m.rawOutput]
            /\ r.m.rawOutput = <<>> =>
                 copy = Ret([r.m EXCEPT !.status = Status("nothing to copy", "", <<>>)], <<>>)

\* the raw output of a parse failure was copied to the clipboard
C16_Witness ==
  /\ quit /\ m.lastParseError = ParseFailed /\ m.options = <<>>
  /\ clipboard # <<>> /\ clipboard = m.rawOutput

\* outputs of a successful call that hold valid options JSON
ParseableOutputs ==
  { <<"{A}">>,
    <<"{B}", "\n">>,
    <<"{M}", "{D}", "\n">>,
    <<"s", "u", "r", "e", ":", " ", "{C}">>,
    <<"{V}">> }

\* C17: a successful call whose output parses ends in Reviewing with the
\* options equal to the ranked parse result and the selection index 0; for
\* the options ranked 1 ("ls -la") and 2 ("ls") the selected value is
\* "ls -la", and for "a  b" ranked 2 followed by "ls" ranked 1 it is "ls".
C17_ParseSuccessSelectsFirst ==
  ~quit =>
    \A c \in BagToSet(calls), output \in Outputs \cup ParseableOutputs :
      ~NoValidOptions(output) =>
        LET r == Completion(c, output, NoErr)
        IN  /\ r.m.mode = modeViewing
            /\ r.m.lastParseError = NoError
            /\ r.m.options = parseOptions(TrimSpace(output)).opts
            /\ Len(r.m.options) > 0
            /\ r.m.selected = 0
            /\ selectedValue(r.m) = r.m.options[1].Value
            /\ output = <<"{A}">> =>
                 /\ [i \in 1..2 |-> r.m.options[i].Value]
                      = << <<"l", "s", " ", "-", "l", "a">>, <<"l", "s">> >>
                 /\ selectedValue(r.m) = <<"l", "s", " ", "-", "l", "a">>
            /\ output = <<"{M}", "{D}", "\n">> =>
                 /\ [i \in 1..2 |-> r.m.options[i].RecommendationOrder] = <<1, 2>>
                 /\ selectedValue(r.m) = <<"l", "s">>

\* an exchange has ended with two ranked options, the first one selected
C17_Witness ==
  /\ ~quit /\ m.mode = modeViewing /\ m.status = helpViewing
  /\ Len(m.options) = 2 /\ m.selected = 0
  /\ m.options[1].RecommendationOrder = 1 /\ m.options[2].RecommendationOrder = 2
  /\ selectedValue(m) = <<"l", "s">>

\* the positions of the candidates of a text that decode to a non-empty
\* options array, and the last of them
GoodCandidates(text) == {i \in 1..Len(text) : GoodCandidate(text, i)}
LastGood(text) ==
  CHOOSE i \in GoodCandidates(text) : \A j \in GoodCandidates(text) : j <= i

Values(opts) == [i \in 1..Len(opts) |-> opts[i].Value]

\* C18: parseOptions returns the (ranked) options of the last candidate, in
\* left-to-right order, that decodes to a non-empty options array: of two
\* well-formed objects the second; a later candidate that is truncated, has
\* no options array or an empty one neither replaces nor erases an earlier
\* good one; and it fails, with no options, exactly when no candidate is
\* good, as when the text has no marker.
C18_ParseReturnsLastGood ==
  (fn.name = "parseOptions" /\ fn.res # <<>>) =>
    LET raw == fn.arg
        r == fn.res[1]
    IN  /\ (r.err # NoError) <=> (GoodCandidates(raw) = {})
        /\ r.err # NoError => r = [opts |-> <<>>, err |-> ParseFailed]
        /\ r.err = NoError =>
             /\ r.opts = SliceStable(Decode(raw[LastGood(raw)]).Options)
             /\ Len(r.opts) > 0
        /\ (\A i \in 1..Len(raw) : ~IsMarker(raw[i])) => r.err = ParseFailed
        /\ raw = <<"{A}", "{B}">> => Values(r.opts) = << <<"y">>, <<"z">>, <<"x">> >>
        /\ raw \in {<<"{A}", "{M}">>, <<"{A}", "{N}">>, <<"{A}", "{E}">>} =>
             Values(r.opts) = << <<"l", "s", " ", "-", "l", "a">>, <<"l", "s">> >>

\* parseOptions was given two well-formed objects followed by an empty
\* options array, and returned the second object's options
C18_Witness ==
  /\ fn.name = "parseOptions" /\ fn.arg = <<"{A}", "{B}", "{E}">>
  /\ fn.res # <<>> /\ fn.res[1].err = NoError
  /\ Values(fn.res[1].opts) = << <<"y">>, <<"z">>, <<"x">> >>

Ranks(opts) == [i \in 1..Len(opts) |-> opts[i].RecommendationOrder]

\* the decode position of an option of an option list
DecodeIndex(opts, e) == CHOOSE i \in 1..Len(opts) : opts[i] = e

\* a must come before b in the ranking of the decoded list opts
Precedes(opts, a, b) ==
  LET ra == a.RecommendationOrder
      rb == b.RecommendationOrder
  IN  \/ ra > 0 /\ rb <= 0
      \/ ra > 0 /\ rb > 0 /\ ra < rb
      \/ /\ (ra <= 0 /\ rb <= 0) \/ ra = rb
         /\ DecodeIndex(opts, a) < DecodeIndex(opts, b)

\* C19: the ranking returns a permutation of the decoded options in which
\* every positively ranked option precedes every option ranked <= 0,
\* positive ranks ascend, and options that are both unranked or equally
\* ranked keep their decode order; ranks [3,1,2] give the original indices
\* [1,2,0], [0,0,0] the original order, [0,5,0] gives [1,0,2].
C19_RankingIsStable ==
  (fn.name = "SliceStable" /\ fn.res # <<>>) =>
    LET opts == fn.arg
        out == fn.res[1]
        n == Len(opts)
    IN  /\ Len(out) = n
        /\ {out[i] : i \in 1..n} = {opts[i] : i \in 1..n}
        /\ \A i, j \in 1..n : i < j =>
             /\ ~Precedes(opts, out[j], out[i])
             /\ out[j].RecommendationOrder > 0 => out[i].RecommendationOrder > 0
             /\ (out[i].RecommendationOrder > 0 /\ out[j].RecommendationOrder > 0) =>
                  out[i].RecommendationOrder <= out[j].RecommendationOrder
        /\ Ranks(opts) = <<3, 1, 2>> => Values(out) = << <<"1">>, <<"2">>, <<"0">> >>
        /\ Ranks(opts) = <<0, 0, 0>> => out = opts
        /\ Ranks(opts) = <<0, 5, 0>> => Values(out) = << <<"1">>, <<"0">>, <<"2">> >>

\* the options ranked [0,5,0] were ranked: the one ranked 5 came first and
\* the unranked ones kept their order
C19_Witness ==
  /\ fn.name = "SliceStable" /\ Ranks(fn.arg) = <<0, 5, 0>>
  /\ fn.res # <<>> /\ Values(fn.res[1]) = << <<"1">>, <<"0">>, <<"2">> >>

\* C20: cleanText is idempotent: applied to its own result it returns that
\* result.
C20_CleanTextIdempotent ==
  (fn.name = "cleanText" /\ Len(fn.res) = 2) =>
    /\ fn.res[1] = cleanText(fn.arg)
    /\ fn.res[2] = fn.res[1]

\* cleanText joined two words separated by a space, a line break and a
\* space, and its second application changed nothing
C20_Witness ==
  /\ fn.name = "cleanText" /\ fn.arg = <<"a", " ", "\n", " ", "a">>
  /\ Len(fn.res) = 2
  /\ fn.res[1] = <<"a", " ", "a">> /\ fn.res[2] = <<"a", " ", "a">>

\* the position of a backend name in the declared list
DeclaredIndex(name) == CHOOSE i \in 1..Len(allCLIOptions) : allCLIOptions[i] = name

Names(cliOptions) == {cliOptions[i] : i \in 1..Len(cliOptions)}

\* C21: startup keeps the available backends, in declared order, and is fatal
\* when there is none; in every interactive state the registry is non-empty
\* and 0 <= active index < count; when the requested default is not among
\* the available backends the active index starts at 0.
C21_RegistryNeverEmpty ==
  /\ m.cliOptions = <<>> => quit
  /\ ~quit => (0 <= m.cliIndex /\ m.cliIndex < Len(m.cliOptions))
  /\ Names(m.cliOptions) \in Installations
  /\ \A i, j \in 1..Len(m.cliOptions) :
       i < j => DeclaredIndex(m.cliOptions[i]) < DeclaredIndex(m.cliOptions[j])
  /\ \A avail \in Installations, defaultCLI \in DefaultCLIs :
       LET mm == newModel(avail, defaultCLI)
       IN  /\ Names(mm.cliOptions) = avail
           /\ (\A name \in avail : ~EqualFold(name, defaultCLI)) => mm.cliIndex = 0
           /\ (\E name \in avail : EqualFold(name, defaultCLI)) =>
                EqualFold(mm.cliOptions[mm.cliIndex + 1], defaultCLI)

\* the session started with one backend available, which is not the
\* requested default
C21_Witness ==
  /\ ~quit /\ m.cliOptions = <<"opencode">> /\ m.cliIndex = 0
  /\ m.mode = modeInput /\ m.status = helpInput

\* nextCLI applied k times
RECURSIVE NextCLITimes(_, _)
NextCLITimes(mm, k) == IF k = 0 THEN mm ELSE NextCLITimes(nextCLI(mm), k - 1)

\* C22: nextCLI and prevCLI wrap around over the number of backends: nextCLI
\* maps index count-1 to 0 and any other index to the next one, prevCLI maps
\* index 0 to count-1 and any other index to the one before, each undoes the
\* other, and count consecutive nextCLI restore the index.
C22_CycleWrapsAround ==
  ~quit =>
    LET count == Len(m.cliOptions)
        idx == m.cliIndex
    IN  /\ nextCLI(m).cliIndex = (IF idx = count - 1 THEN 0 ELSE idx + 1)
        /\ prevCLI(m).cliIndex = (IF idx = 0 THEN count - 1 ELSE idx - 1)
        /\ prevCLI(nextCLI(m)).cliIndex = idx
        /\ nextCLI(prevCLI(m)).cliIndex = idx
        /\ NextCLITimes(m, count).cliIndex = idx
        /\ m.mode = modeInput =>
             /\ handleKeyMsg(m, "ctrl+n", TRUE).m = nextCLI(m)
             /\ handleKeyMsg(m, "ctrl+p", TRUE).m = prevCLI(m)

\* in Composing, a cycle request has just made the last of three backends the
\* active one
C22_Witness ==
  /\ ~quit /\ m.mode = modeInput /\ Len(m.cliOptions) = 3
  /\ m.cliIndex = 2 /\ m.status = Status("using", "gemini", <<>>)
  /\ m.input = <<>> /\ calls = EmptyBag /\ execs = EmptyBag

----------------------------------------------------------------------------
(* The history-keeping variant of the program (src/main.go).  Its model,   *)
(* handlers and messages carry the prefix main_ where ui.go has a          *)
(* definition of the same name.                                            *)

main_cliOptions == <<"codex", "claude">>
main_helpInput == Status("main.helpInput", "", <<>>)
main_helpViewing == Status("main.helpViewing", "", <<>>)

exchange(cli, prompt, response, err) ==
  [cli |-> cli, prompt |-> prompt, response |-> response, err |-> err]

main_newModel(defaultCLI) ==
  [ cliOptions |-> main_cliOptions,
    cliIndex |-> FirstMatch(main_cliOptions, defaultCLI, 1),
    input |-> <<>>,
    mode |-> modeInput,
    running |-> FALSE,
    history |-> <<>>,
    lastResponse |-> <<>>,
    status |-> main_helpInput ]

main_currentCLI(mm) == mm.cliOptions[mm.cliIndex + 1]

\* the body of toggleCLI: what it makes of the model it is given
main_toggleCLI(mm) ==
  IF Len(mm.cliOptions) = 0 THEN mm
  ELSE [mm EXCEPT !.cliIndex = (mm.cliIndex + 1) % Len(mm.cliOptions),
                  !.status = IF mm.mode = modeInput THEN main_helpInput
                             ELSE IF mm.mode = modeViewing THEN main_helpViewing
                             ELSE @]

\* the statement m.toggleCLI(): toggleCLI is declared on the value receiver
\* (m model), so its body works on a copy of the caller's m and the copy is
\* dropped on return; the caller's m is what it was
main_callToggleCLI(mm) ==
  LET copy == main_toggleCLI(mm) IN mm

\* an exchange appended by a handleResponse that starts the history anew
main_handleResponse_StartsAnew(mm, msg) ==
  LET trimmed == TrimRightNewlines(msg.output)
      respText == IF msg.err # NoErr /\ TrimSpace(trimmed) = <<>> THEN msg.err
                  ELSE trimmed
      ex == exchange(msg.cli, mm.input, respText, msg.err)
  IN  Ret([mm EXCEPT !.running = FALSE,
                     !.mode = modeViewing,
                     !.history = <<ex>>,
                     !.lastResponse = respText,
                     !.status = IF msg.err # NoErr
                                THEN Status("main.error from", msg.cli, <<>>)
                                ELSE main_helpViewing], <<>>)

main_handleResponse(mm, msg) ==
  LET trimmed == TrimRightNewlines(msg.output)
      respText == IF msg.err # NoErr /\ TrimSpace(trimmed) = <<>> THEN msg.err
                  ELSE trimmed
      ex == exchange(msg.cli, mm.input, respText, msg.err)
  IN  Ret([mm EXCEPT !.running = FALSE,
                     !.mode = modeViewing,
                     !.history = Append(@, ex),
                     !.lastResponse = respText,
                     !.status = IF msg.err # NoErr
                                THEN Status("main.error from", msg.cli, <<>>)
                                ELSE main_helpViewing], <<>>)

main_isShiftEnter(key) == key \in {"ctrl+j", "shift+enter", "alt+enter"}

\* the command's closure captures the runner, its name and the prompt
main_submitPrompt(mm) ==
  LET prompt == TrimRightNewlines(mm.input)
  IN  IF TrimSpace(prompt) = <<>>
      THEN Ret([mm EXCEPT !.status = Status("main.prompt is empty", "", <<>>)], <<>>)
      ELSE Ret([mm EXCEPT !.running = TRUE,
                          !.mode = modeRunning,
                          !.status = Status("main.running", main_currentCLI(mm), <<>>)],
               <<Cmd("call", main_currentCLI(mm), prompt, FALSE)>>)

main_updateInput(mm, key) ==
  Ret([mm EXCEPT !.input = textareaUpdate(mm.input, key)], <<>>)

main_handleInputKeys(mm, key) ==
  IF key = "tab" THEN Ret(main_callToggleCLI(mm), <<>>)
  ELSE IF main_isShiftEnter(key) THEN main_updateInput(mm, "enter")
  ELSE IF isKeyEnter(key) THEN main_submitPrompt(mm)
  ELSE main_updateInput(mm, key)

\* clipOk: whether clipboard.WriteAll succeeds, should the handler call it;
\* j, k, ctrl+d and ctrl+u scroll the viewport, which the model leaves out
main_handleViewingKeys(mm, key, clipOk) ==
  IF key = "esc" \/ key = "q" THEN Ret(mm, <<teaQuit>>)
  ELSE IF key = "tab" THEN Ret(main_callToggleCLI(mm), <<>>)
  ELSE IF main_isShiftEnter(key)
  THEN Ret([mm EXCEPT !.mode = modeInput,
                      !.running = FALSE,
                      !.input = <<>>,
                      !.status = main_helpInput], <<>>)
  ELSE IF isKeyEnter(key)
  THEN IF mm.lastResponse = <<>>
       THEN Ret([mm EXCEPT !.status = Status("main.nothing to copy", "", <<>>)], <<>>)
       ELSE IF ~clipOk
       THEN Ret([mm EXCEPT !.status = Status("main.copy failed", "", <<>>)], <<>>)
       ELSE RetClip(mm, <<teaQuit>>, mm.lastResponse)
  ELSE Ret(mm, <<>>)

main_handleRunningKeys(mm, key) ==
  IF key = "tab" THEN Ret(main_callToggleCLI(mm), <<>>)
  ELSE Ret(mm, <<>>)

main_handleKeyMsg(mm, key, clipOk) ==
  CASE mm.mode = modeInput -> main_handleInputKeys(mm, key)
    [] mm.mode = modeRunning -> main_handleRunningKeys(mm, key)
    [] mm.mode = modeViewing -> main_handleViewingKeys(mm, key, clipOk)
    [] OTHER -> Ret(mm, <<>>)

\* the keys pressed, the -cli flag, and what a backend may print
main_Keys == {"tab", "enter", "alt+enter", "q", " ", "esc"}
main_DefaultCLIs == {"codex", "Claude", "bard"}
main_Outputs == {<<>>, <<"o", "k", "\n">>}

\* a call in flight: the name and the prompt its closure captured and, for
\* the record, the runner that was active (at) and the text in the textarea
\* (typed) when it was submitted
main_InFlight(cmd, mm) ==
  [cli |-> cmd.cli, prompt |-> cmd.value, at |-> main_currentCLI(mm), typed |-> mm.input]

\* a delivered responseMsg with the call it answers
Delivered(c, msg) == [call |-> c, msg |-> msg]

main_Apply(r, calls0, completed0) ==
  LET newCalls == OfType(r.cmds, "call")
      quitting == OfType(r.cmds, "quit") # <<>>
  IN  /\ BagCardinality(calls0) + Len(newCalls) <= MaxInFlight
      /\ Len(r.m.input) <= MaxInput
      /\ Len(r.m.history) <= MaxHistory
      /\ m' = r.m
      /\ calls' = IF quitting THEN EmptyBag
                  ELSE calls0 (+) BagOfSeq([i \in 1..Len(newCalls) |->
                                             main_InFlight(newCalls[i], r.m)])
      /\ completed' = completed0
      /\ clipboard' = IF r.clip.written THEN r.clip.value ELSE clipboard
      /\ quit' = quitting
      /\ UNCHANGED <<execs, ticks, fn>>

main_Init ==
  /\ \E defaultCLI \in main_DefaultCLIs : m = main_newModel(defaultCLI)
  /\ calls = EmptyBag
  /\ execs = EmptyBag
  /\ ticks = 0
  /\ clipboard = <<>>
  /\ quit = FALSE
  /\ fn = Idle
  /\ completed = <<>>

\* Update, case tea.KeyMsg
main_KeyMsg ==
  /\ ~quit
  /\ \E key \in main_Keys :
       \E clipOk \in IF m.mode = modeViewing /\ isKeyEnter(key) THEN BOOLEAN ELSE {TRUE} :
          main_Apply(main_handleKeyMsg(m, key, clipOk), calls, completed)

\* Update, case responseMsg
main_ResponseMsg ==
  /\ ~quit
  /\ \E c \in BagToSet(calls), output \in main_Outputs, err \in Errors :
        LET msg == responseMsg(output, err, c.cli)
        IN  main_Apply(main_handleResponse(m, msg), calls (-) SetToBag({c}),
                       Append(completed, Delivered(c, msg)))

main_Next == main_KeyMsg \/ main_ResponseMsg

HistorySpec == main_Init /\ [][main_Next]_vars

----------------------------------------------------------------------------
(* Properties of the history-keeping variant                               *)

\* C24: in main.go, tab pressed in Composing, Running or Reviewing advances
\* the active index by one modulo the number of CLIs, and a submission made
\* after it is dispatched to the newly active CLI.
C24_TabSwitchesCLI ==
  ~quit =>
    LET r == main_handleKeyMsg(m, "tab", TRUE)
        advanced == (m.cliIndex + 1) % Len(m.cliOptions)
    IN  /\ r.m.cliIndex = advanced
        /\ (m.mode = modeInput /\ ~Blank(m.input)) =>
              LET s == main_handleKeyMsg(r.m, "enter", TRUE)
              IN  /\ Len(s.cmds) = 1
                  /\ s.cmds[1].cli = m.cliOptions[advanced + 1]

\* the exchange main.go is to record for a delivered responseMsg: the backend
\* name of the call, the text that was in the textarea when the call was
\* submitted, the output less its trailing newlines (the error text when
\* that is blank and the call failed), and the error
Recorded(d) ==
  LET trimmed == TrimRightNewlines(d.msg.output)
  IN  exchange(d.call.cli, d.call.typed,
               IF d.msg.err # NoErr /\ Blank(trimmed) THEN d.msg.err ELSE trimmed,
               d.msg.err)

IsPrefix(s, t) == Len(s) <= Len(t) /\ SubSeq(t, 1, Len(s)) = s

\* C25: in main.go the history is an append-only log.  In every reachable
\* state it holds one exchange per completion so far, in the order of the
\* completions, each the record of its completion; and every step (a key in
\* any mode, reset and copy failure included, a submission, a completion)
\* leaves the entries there are in place and adds at most one, a completion
\* exactly one and a key none.
C25_HistoryAppendOnly ==
  /\ [](/\ Len(m.history) = Len(completed)
        /\ \A i \in 1..Len(completed) : m.history[i] = Recorded(completed[i]))
  /\ [][/\ IsPrefix(m.history, m'.history)
        /\ Len(m'.history) = Len(m.history) + (Len(completed') - Len(completed))
        /\ Len(completed') - Len(completed) \in {0, 1}
        /\ Len(completed') > Len(completed) => BagCardinality(calls') < BagCardinality(calls)
       ]_vars
  /\ [](~quit => \A key \in main_Keys, clipOk \in BOOLEAN :
                    main_handleKeyMsg(m, key, clipOk).m.history = m.history)

\* two exchanges are in the history, a reset lies between them, and the copy
\* of the second response has failed
C25_Witness ==
  /\ Len(m.history) = 2
  /\ m.history[1].err # NoErr
  /\ m.history[2].err = NoErr
  /\ m.mode = modeViewing
  /\ m.status = Status("main.copy failed", "", <<>>)

----------------------------------------------------------------------------
(* Properties of ui.go, continued                                          *)

\* the exchange state of a model is empty
ExchangeEmpty(mm) ==
  mm.options = <<>> /\ mm.lastParseError = NoError /\ mm.rawOutput = <<>>

\* C26: in every reachable state with mode Composing or Running the exchange
\* state is empty, and a non-empty option list exists only in Reviewing; a
\* submission that dispatches a call leaves the exchange state empty, and it
\* stays empty for as long as the new call is in flight, whatever call
\* dispatched earlier completes meanwhile.
C26_ExchangeEmptyWhileInFlight ==
  ~quit =>
    /\ m.mode \in {modeInput, modeRunning} => ExchangeEmpty(m)
    /\ m.options # <<>> => m.mode = modeViewing
    /\ \A key \in SubmitKeys :
         LET s == handleKeyMsg(m, key, TRUE)
         IN  OfType(s.cmds, "call") # <<>> =>
               /\ ExchangeEmpty(s.m)
               /\ \A c \in BagToSet(calls), output \in Outputs, err \in Errors :
                    ExchangeEmpty(handleResponse(s.m, responseMsg(output, err, c.cli)).m)

\* every key the handlers of ui.go tell apart, and a few they do not
AllKeys == Keys \cup {"esc", "ctrl+enter", "ctrl+j", "j", "k", "tab", "x"}

\* C27: while the mode is Running, a key other than ctrl+c and esc leaves
\* the whole model as it is (input, active runner, options, selection,
\* status, auto-execute flag and the rest), writes nothing to the clipboard
\* and dispatches no command; ctrl+c and esc change nothing but end the
\* session.
C27_RunningIgnoresKeys ==
  (~quit /\ m.mode = modeRunning) =>
    \A key \in AllKeys, clipOk \in BOOLEAN :
      LET r == handleKeyMsg(m, key, clipOk)
      IN  IF key \in QuitKeys THEN r = Ret(m, <<teaQuit>>)
          ELSE r = Ret(m, <<>>)

\* a call is in flight in Running with text in the textarea, three runners
\* to cycle through and the auto-execute flag set
C27_Witness ==
  /\ ~quit
  /\ m.mode = modeRunning
  /\ m.running
  /\ InFlightCount = 1
  /\ m.input # <<>>
  /\ Len(m.cliOptions) = 3
  /\ m.autoExecute

\* the running flag and the mode of a model agree
Agree(mm) == mm.running <=> (mm.mode = modeRunning)

\* C28: in every reachable state of ui.go running is true exactly when the
\* mode is Running, and every message Update may be given there (a key, a
\* tick, a completion, an exec result) yields a model where they agree again.
C28_RunningFlagAgreesWithMode ==
  /\ Agree(m)
  /\ ~quit =>
       /\ \A key \in AllKeys, clipOk \in BOOLEAN : Agree(handleKeyMsg(m, key, clipOk).m)
       /\ Agree(updateTick(m).m)
       /\ \A cli \in Names(m.cliOptions), output \in Outputs, err \in Errors :
            Agree(handleResponse(m, responseMsg(output, err, cli)).m)
       /\ \A err \in Errors, exit \in BOOLEAN :
            Agree(updateExecResult(m, execResultMsg(err, exit)).m)

\* a failed run has put the machine in Reviewing with the flag cleared while
\* a call is still in flight
C28_Witness ==
  /\ ~quit
  /\ m.mode = modeViewing
  /\ ~m.running
  /\ m.status = Status("exec failed", "", ExitErr)
  /\ InFlightCount = 1

\* the tick commands among the commands a handler returns
NewTicks(r) == Len(OfType(r.cmds, "tick"))

\* C29: at most one tickCmd is sleeping at any time: whatever message Update
\* is given in a reachable state (a key, among them a resubmission made while
\* the tick of the previous call is still sleeping, a completion, an exec
\* result, or the tickMsg of a sleeping tick), the ticks still sleeping and
\* the ticks the handler schedules are at most one together; and a tickMsg
\* delivered when no call is running schedules no further tick.
C29_AtMostOneTick ==
  /\ ticks <= 1
  /\ ~quit =>
       /\ \A key \in AllKeys, clipOk \in BOOLEAN :
            ticks + NewTicks(handleKeyMsg(m, key, clipOk)) <= 1
       /\ \A c \in BagToSet(calls), output \in Outputs, err \in Errors :
            ticks + NewTicks(Completion(c, output, err)) <= 1
       /\ \A c \in BagToSet(execs), err \in Errors :
            ticks + NewTicks(updateExecResult(m, execResultMsg(err, c.exit))) <= 1
       /\ ticks > 0 => (ticks - 1) + NewTicks(updateTick(m)) <= 1
       /\ ~m.running => NewTicks(updateTick(m)) = 0

\* the shell commands among the commands a handler returns
NewExecs(r) == OfType(r.cmds, "exec")

\* C30: a completion runs a command automatically only if its own call was
\* submitted with ctrl+r: the completion of a call submitted with Enter
\* dispatches no shell command, whatever happened before and since; and a
\* completion dispatches at most one command and clears the flag when it
\* does, so that one submission triggers at most one automatic run.
C30_AutoExecuteFollowsSubmitKey ==
  ~quit =>
    \A c \in BagToSet(calls), output \in Outputs, err \in Errors :
      LET r == Completion(c, output, err)
      IN  /\ ~c.auto => NewExecs(r) = <<>>
          /\ Len(NewExecs(r)) <= 1
          /\ NewExecs(r) # <<>> => ~r.m.autoExecute

====
